---- MODULE Spec2Model ----
(***************************************************************************)
(* PDFQASystem (Build_a_PDF_powered_QA_system.ipynb): one instance of the  *)
(* class with its three public methods, and the driver main().             *)
(*                                                                         *)
(* A FAISS index is the record [id, texts]: id tells one index object from *)
(* another built over the same texts.  A RetrievalQA chain is the record   *)
(* [api_key, retriever], retriever being the index it searches.  Every     *)
(* call into a library or a service (open/PyPDF2, the embedding model,     *)
(* FAISS, ChatGroq, RetrievalQA, the hosted model) either returns or       *)
(* raises; which one is an input of the action.                            *)
(***************************************************************************)
EXTENDS Integers, Sequences, FiniteSets, TLC

VARIABLES
    pages,          \* the page texts of the file at pdf_path when last opened
    env_key,        \* os.environ.get("GROQ_API_KEY")
    groq_api_key,   \* self.groq_api_key
    chunk_size,     \* self.chunk_size
    chunk_overlap,  \* self.chunk_overlap
    vector_store,   \* self.vector_store: an index, or None
    qa_chain,       \* self.qa_chain: a chain, or None
    builds,         \* the number of FAISS indexes built so far
    lastOp,         \* the method that ran last
    ret,            \* what it returned ("Raise": it raised instead)
    out,            \* what it printed ("" when nothing)
    fault,          \* the stage of the build that failed in it ("none": none)
    indexCalled,    \* whether it called FAISS.from_texts
    ranChain,       \* whether it called qa_chain.run
    searched,       \* the index qa_chain.run retrieved from, or None
    pc,             \* main(): the statement it is at ("free": no main running)
    qi,             \* main(): how many questions the loop has passed
    log             \* main(): the calls it has made and their results, in order

vars == <<pages, env_key, groq_api_key, chunk_size, chunk_overlap, vector_store,
          qa_chain, builds, lastOp, ret, out, fault, indexCalled,
          ranChain, searched, pc, qi, log>>

instanceVars == <<env_key, groq_api_key, chunk_size, chunk_overlap>>

mainVars == <<pc, qi, log>>

----------------------------------------------------------------------------
(* Bounds and input sets *)

MaxBuilds == 2

None == [id |-> 0]

Absent == "<None>"

\* Documents, each the sequence of its pages' texts: without pages, without
\* text, with whitespace only, and with text on one or two pages.
Docs == { <<>>,
          << <<>> >>,
          << <<" ">> >>,
          << <<" ">>, <<" ">> >>,
          << <<"a", "b">> >>,
          << <<"a", " ">>, <<"b", "c">> >> }

ChunkConfigs == { [chunk_size |-> 2, chunk_overlap |-> 0],
                  [chunk_size |-> 2, chunk_overlap |-> 1] }

ConfiguredKeys == { Absent, "", "k1" }

EnvKeys == { Absent, "", "k2" }

Answers == { "", "answer" }

questions == << "q1", "q2" >>

BuildFailures == { "none", "extract", "split", "embed", "index" }

----------------------------------------------------------------------------
(* Text helpers *)

RECURSIVE Concat(_)
Concat(ps) ==
    IF Len(ps) = 0 THEN <<>> ELSE Head(ps) \o Concat(Tail(ps))

RECURSIVE LStrip(_)
LStrip(s) ==
    IF Len(s) > 0 /\ Head(s) = " " THEN LStrip(Tail(s)) ELSE s

RECURSIVE RStrip(_)
RStrip(s) ==
    IF Len(s) > 0 /\ s[Len(s)] = " " THEN RStrip(SubSeq(s, 1, Len(s) - 1)) ELSE s

Strip(s) == RStrip(LStrip(s))

RECURSIVE Windows(_, _, _)
Windows(s, L, O) ==
    IF Len(s) = 0 THEN <<>>
    ELSE IF Len(s) <= L THEN << s >>
    ELSE << SubSeq(s, 1, L) >> \o Windows(SubSeq(s, L - O + 1, Len(s)), L, O)

RECURSIVE StripAll(_)
StripAll(ws) ==
    IF Len(ws) = 0 THEN <<>> ELSE << Strip(Head(ws)) >> \o StripAll(Tail(ws))

NonEmpty(c) == Len(c) > 0

\* RecursiveCharacterTextSplitter.split_text: pieces of at most chunk_size
\* characters, neighbours sharing chunk_overlap characters, each piece
\* stripped of surrounding whitespace and dropped when nothing is left.
split_text(text) ==
    SelectSeq(StripAll(Windows(text, chunk_size, chunk_overlap)), NonEmpty)

\* Python truthiness of an optional string
Truthy(s) == s # Absent /\ s # ""

\* Python's  a or b
Or(a, b) == IF Truthy(a) THEN a ELSE b

MsgReadError == "Error reading PDF"

MsgNoStore == "Vector store not initialized. Run create_vector_store first."

MsgNoKey == "Error initializing Groq LLM: GROQ_API_KEY not found"

MsgLlmError == "Error initializing Groq LLM"

MsgNoChain == "QA chain not initialized. Run initialize_qa_chain first."

MsgQueryError == "Error processing query"

\* qa_chain.run either returns the model's answer or raises, having produced
\* nothing or part of an answer.
RunOutcomes == [raised : {FALSE}, text : Answers]
                   \cup [raised : {TRUE}, text : {"", "partial"}]

----------------------------------------------------------------------------
(* PDFQASystem.__init__ *)

Constructed ==
    /\ pages = <<>>
    /\ vector_store = None
    /\ qa_chain = None
    /\ builds = 0
    /\ lastOp = "__init__"
    /\ ret = "None"
    /\ out = ""
    /\ fault = "none"
    /\ indexCalled = FALSE
    /\ ranChain = FALSE
    /\ searched = None
    /\ qi = 0
    /\ log = <<>>

Init ==
    /\ env_key \in EnvKeys
    /\ groq_api_key \in ConfiguredKeys
    /\ \E c \in ChunkConfigs :
          chunk_size = c.chunk_size /\ chunk_overlap = c.chunk_overlap
    /\ Constructed
    /\ pc = "free"

----------------------------------------------------------------------------
(* PDFQASystem.extract_text_from_pdf: the page texts concatenated in page  *)
(* order, or None (ok = FALSE) when opening or reading raised.  doc is what *)
(* the file holds when the call opens it.                                  *)

\* variant: the except branch returns the text instead of None
extract_text_from_pdf_swallow(doc, fail) ==
    [ok |-> TRUE, text |-> Concat(doc)]

extract_text_from_pdf(doc, fail) ==
    IF fail = "extract"
    THEN [ok |-> FALSE, text |-> <<>>]
    ELSE [ok |-> TRUE, text |-> Concat(doc)]

\* `not text`: None or the empty string
NotText(t) == ~t.ok \/ Len(t.text) = 0

\* FAISS.from_texts(texts, embeddings) raises when the embedding call or the
\* index construction fails, and on an empty list (it sizes the index by
\* len(embeddings[0])).
from_texts_raises(texts, fail) ==
    fail \in {"embed", "index"} \/ Len(texts) = 0

\* The stage at which a build stops: the injected failure if the build gets
\* that far, "empty" for a document without text, "index" for FAISS.from_texts
\* raising on zero chunks.
FailedStage(doc, fail) ==
    LET text == Concat(doc)
    IN  IF fail = "extract" THEN "extract"
        ELSE IF Len(text) = 0 THEN "empty"
        ELSE IF fail # "none" THEN fail
        ELSE IF Len(split_text(text)) = 0 THEN "index"
        ELSE "none"

(* PDFQASystem.create_vector_store *)
create_vector_store(doc, fail) ==
    LET t == extract_text_from_pdf(doc, fail)
        texts == split_text(t.text)
    IN  /\ lastOp' = "create_vector_store"
        /\ pages' = doc
        /\ fault' = FailedStage(doc, fail)
        /\ out' = IF t.ok THEN "" ELSE MsgReadError
        /\ ranChain' = FALSE
        /\ searched' = None
        /\ qa_chain' = qa_chain
        /\ IF NotText(t)
           THEN /\ ret' = "False"
                /\ indexCalled' = FALSE
                /\ UNCHANGED <<vector_store, builds>>
           ELSE IF fail = "split"
           THEN /\ ret' = "Raise"
                /\ indexCalled' = FALSE
                /\ UNCHANGED <<vector_store, builds>>
           ELSE IF from_texts_raises(texts, fail)
           THEN /\ ret' = "Raise"
                /\ indexCalled' = TRUE
                /\ UNCHANGED <<vector_store, builds>>
           ELSE /\ builds < MaxBuilds
                /\ builds' = builds + 1
                /\ vector_store' = [id |-> builds + 1, texts |-> texts]
                /\ indexCalled' = TRUE
                /\ ret' = "True"

----------------------------------------------------------------------------
(* PDFQASystem.initialize_qa_chain *)

\* variant: no guard on vector_store
StoreMissing_skipped == FALSE

StoreMissing == vector_store = None

\* variant: the environment consulted first
api_key_env_first == Or(env_key, groq_api_key)

api_key == Or(groq_api_key, env_key)

\* variant: no test of api_key
KeyMissing_skipped == FALSE

KeyMissing == ~Truthy(api_key)

initialize_qa_chain(llmOk, chainOk) ==
    /\ lastOp' = "initialize_qa_chain"
    /\ fault' = "none"
    /\ indexCalled' = FALSE
    /\ ranChain' = FALSE
    /\ searched' = None
    /\ UNCHANGED <<pages, vector_store, builds>>
    /\ IF StoreMissing
       THEN /\ ret' = "False"
            /\ out' = MsgNoStore
            /\ qa_chain' = qa_chain
       ELSE IF KeyMissing
       THEN /\ ret' = "False"
            /\ out' = MsgNoKey
            /\ qa_chain' = qa_chain
       ELSE IF ~llmOk
       THEN /\ ret' = "False"
            /\ out' = MsgLlmError
            /\ qa_chain' = qa_chain
       ELSE IF ~chainOk \/ vector_store = None  \* None has no as_retriever
       THEN /\ ret' = "Raise"
            /\ out' = ""
            /\ qa_chain' = qa_chain
       ELSE /\ qa_chain' = [api_key |-> api_key, retriever |-> vector_store]
            /\ ret' = "True"
            /\ out' = ""

----------------------------------------------------------------------------
(* PDFQASystem.query *)

\* variant: no guard on qa_chain
ChainMissing_skipped == FALSE

ChainMissing == qa_chain = None

\* variant: the except branch returns what the call had produced
query_result_partial(o) == o.text

query_result(o) == IF o.raised THEN "None" ELSE o.text

query(question, o) ==
    /\ lastOp' = "query"
    /\ fault' = "none"
    /\ indexCalled' = FALSE
    /\ UNCHANGED <<pages, vector_store, qa_chain, builds>>
    /\ IF ChainMissing
       THEN /\ ret' = "None"
            /\ out' = MsgNoChain
            /\ ranChain' = FALSE
            /\ searched' = None
       ELSE IF qa_chain = None  \* None has no run: raised inside the try
       THEN /\ ret' = "None"
            /\ out' = MsgQueryError
            /\ ranChain' = FALSE
            /\ searched' = None
       ELSE /\ ranChain' = TRUE
            /\ searched' = qa_chain.retriever
            /\ ret' = query_result(o)
            /\ out' = IF o.raised THEN MsgQueryError ELSE ""

----------------------------------------------------------------------------
(* One instance, its methods called in any order by its owner *)

CreateVectorStore ==
    /\ pc = "free"
    /\ \E doc \in Docs, fail \in BuildFailures : create_vector_store(doc, fail)
    /\ UNCHANGED <<instanceVars, mainVars>>

InitializeQaChain ==
    /\ pc = "free"
    /\ \E llmOk \in BOOLEAN, chainOk \in BOOLEAN :
          initialize_qa_chain(llmOk, chainOk)
    /\ UNCHANGED <<instanceVars, mainVars>>

Query ==
    /\ pc = "free"
    /\ \E i \in 1..Len(questions), o \in RunOutcomes : query(questions[i], o)
    /\ UNCHANGED <<instanceVars, mainVars>>

Next == CreateVectorStore \/ InitializeQaChain \/ Query

Spec == Init /\ [][Next]_vars

----------------------------------------------------------------------------
(* main() *)

InitMain ==
    /\ env_key \in EnvKeys
    /\ groq_api_key = Absent
    /\ \E c \in ChunkConfigs :
          chunk_size = c.chunk_size /\ chunk_overlap = c.chunk_overlap
    /\ Constructed
    /\ pc = "create"

\* variant: the stage's result is not tested
AfterStage_unchecked(r, next) == IF r = "Raise" THEN "raised" ELSE next

\* if not <stage>(): return    (an exception leaves main at once)
AfterStage(r, next) ==
    IF r = "Raise" THEN "raised" ELSE IF r = "True" THEN next ELSE "done"

MainCreate ==
    /\ pc = "create"
    /\ \E doc \in Docs, fail \in BuildFailures : create_vector_store(doc, fail)
    /\ pc' = AfterStage(ret', "init")
    /\ log' = Append(log, [op |-> "create_vector_store", ret |-> ret'])
    /\ UNCHANGED <<instanceVars, qi>>

MainInit ==
    /\ pc = "init"
    /\ \E llmOk \in BOOLEAN, chainOk \in BOOLEAN :
          initialize_qa_chain(llmOk, chainOk)
    /\ pc' = AfterStage(ret', "loop")
    /\ log' = Append(log, [op |-> "initialize_qa_chain", ret |-> ret'])
    /\ UNCHANGED <<instanceVars, qi>>

MainQuery ==
    /\ pc = "loop"
    /\ qi < Len(questions)
    /\ \E o \in RunOutcomes : query(questions[qi + 1], o)
    /\ qi' = qi + 1
    /\ log' = Append(log, [op |-> questions[qi + 1], ret |-> ret'])
    /\ pc' = IF qi + 1 = Len(questions) THEN "done" ELSE "loop"
    /\ UNCHANGED instanceVars

NextMain == MainCreate \/ MainInit \/ MainQuery

SpecMain == InitMain /\ [][NextMain]_vars /\ WF_vars(NextMain)

----------------------------------------------------------------------------
(* The states of the lifecycle *)

Uninitialized == vector_store = None /\ qa_chain = None

IndexBuilt == vector_store # None /\ qa_chain = None

Ready == vector_store # None /\ qa_chain # None

PipelineState ==
    <<instanceVars, pages, vector_store, qa_chain, builds>>

----------------------------------------------------------------------------
(* Properties *)

\* C1: query() in a state where qa_chain is absent fails on its precondition:
\* it returns None with the "QA chain not initialized" message, does not call
\* qa_chain.run (no retrieval, no model call) and changes nothing.
C1_QueryBeforeReady ==
    [][ (lastOp' = "query" /\ qa_chain = None) =>
            /\ ret' = "None"
            /\ out' = MsgNoChain
            /\ ~ranChain'
            /\ searched' = None
            /\ UNCHANGED PipelineState ]_vars

C1_Witness ==
    /\ lastOp = "query"
    /\ IndexBuilt
    /\ ret = "None"
    /\ ~ranChain

\* C2: qa_chain is present only if vector_store is, its retriever is an index
\* that was built before it, and a query runs the chain only in that state;
\* initialize_qa_chain before a successful build returns False and leaves
\* qa_chain absent.
LifecycleOrder ==
    /\ qa_chain # None =>
          /\ vector_store # None
          /\ qa_chain.retriever # None
          /\ qa_chain.retriever.id \in 1..builds
    /\ ranChain => Ready

InitBeforeBuildFails ==
    (lastOp' = "initialize_qa_chain" /\ vector_store = None) =>
        /\ ret' = "False"
        /\ out' = MsgNoStore
        /\ qa_chain' = None

C2_LifecycleOrder == []LifecycleOrder /\ [][InitBeforeBuildFails]_vars

C2_Witness ==
    /\ lastOp = "initialize_qa_chain"
    /\ Uninitialized
    /\ ret = "False"
    /\ out = MsgNoStore

\* C3: a build started in Uninitialized in which a stage fails (extraction,
\* chunking, embedding, index construction, or a document without text)
\* leaves the instance in Uninitialized and tells the caller, by returning
\* False or by raising; a build without a failed stage returns True.
C3_FailedBuildStaysUninitialized ==
    [][ (lastOp' = "create_vector_store" /\ Uninitialized) =>
            /\ fault' # "none" =>
                  /\ Uninitialized'
                  /\ builds' = builds
                  /\ ret' \in {"False", "Raise"}
            /\ fault' = "none" => ret' = "True" ]_vars

C3_Witness ==
    /\ lastOp = "create_vector_store"
    /\ fault = "embed"
    /\ Uninitialized
    /\ ret = "Raise"

\* C4: when the extracted text yields zero chunks (no text, or text the
\* splitter makes no chunk of), create_vector_store returns its failure
\* signal without calling FAISS.from_texts and leaves the state as it was.
ZeroChunks(doc) == Len(split_text(Concat(doc))) = 0

C4_ZeroChunksShortCircuit ==
    [][ (lastOp' = "create_vector_store" /\ Uninitialized /\ ZeroChunks(pages')
           /\ fault' \in {"empty", "index"}) =>
            /\ ret' = "False"
            /\ ~indexCalled'
            /\ Uninitialized' ]_vars

\* C5: initialize_qa_chain in IndexBuilt that does not succeed leaves
\* qa_chain absent and the index as it was; without a credential from the
\* constructor or the environment it returns False with the "GROQ_API_KEY
\* not found" message.
C5_FailedInitStaysIndexBuilt ==
    [][ (lastOp' = "initialize_qa_chain" /\ IndexBuilt) =>
            /\ ret' # "True" =>
                  /\ IndexBuilt'
                  /\ vector_store' = vector_store
            /\ (~Truthy(groq_api_key) /\ ~Truthy(env_key)) =>
                  /\ ret' = "False"
                  /\ out' = MsgNoKey ]_vars

C5_Witness ==
    /\ lastOp = "initialize_qa_chain"
    /\ IndexBuilt
    /\ ~Truthy(groq_api_key)
    /\ ~Truthy(env_key)
    /\ ret = "False"
    /\ out = MsgNoKey

\* C6: once Ready, every further call leaves the instance Ready and with
\* the same index: no operation rebuilds the index of the instance.
C6_ReadyIsStable ==
    [][ Ready => (Ready' /\ vector_store' = vector_store) ]_vars

\* C7: the chain's model is created with the configured credential when one
\* is given (non-empty) and with the environment's otherwise; the call fails
\* for lack of a credential exactly when both are absent or empty.
C7_CredentialChoice ==
    [][ (lastOp' = "initialize_qa_chain" /\ vector_store # None) =>
            /\ ret' = "True" =>
                  qa_chain'.api_key =
                      IF Truthy(groq_api_key) THEN groq_api_key ELSE env_key
            /\ out' = MsgNoKey <=>
                  (~Truthy(groq_api_key) /\ ~Truthy(env_key)) ]_vars

C7_Witness ==
    /\ lastOp = "initialize_qa_chain"
    /\ ret = "True"
    /\ groq_api_key = "k1"
    /\ env_key = "k2"
    /\ qa_chain.api_key = "k1"

\* C8: in Ready, query() runs the chain and returns the model's answer, or
\* None when the call raised (never what the call had produced by then),
\* and leaves the configuration, vector_store and qa_chain unchanged.
C8_QueryInReady ==
    [][ (lastOp' = "query" /\ Ready) =>
            /\ ranChain'
            /\ ret' \in Answers \cup {"None"}
            /\ out' \in {"", MsgQueryError}
            /\ out' = MsgQueryError => ret' = "None"
            /\ UNCHANGED PipelineState ]_vars

C8_Witness ==
    /\ lastOp = "query"
    /\ Ready
    /\ ranChain
    /\ ret = "None"
    /\ out = MsgQueryError

\* C9: main() calls initialize_qa_chain only after create_vector_store
\* returned True, queries only after both returned True, stops without a
\* query when a stage fails, asks each question once, in list order, and
\* terminates.
MainPlan ==
    << "create_vector_store", "initialize_qa_chain" >> \o questions

MainTerminated == pc \in {"done", "raised"}

MainOrder ==
    /\ Len(log) <= Len(MainPlan)
    /\ \A i \in 1..Len(log) :
          /\ log[i].op = MainPlan[i]
          /\ i > 1 => log[1].ret = "True"
          /\ i > 2 => log[2].ret = "True"
    /\ (Len(log) >= 1 /\ log[1].ret # "True") => MainTerminated
    /\ (Len(log) >= 2 /\ log[2].ret # "True") => MainTerminated
    /\ (pc = "done" /\ Len(log) >= 2 /\ log[2].ret = "True") =>
          Len(log) = Len(MainPlan)

C9_MainFailFast == []MainOrder /\ <>MainTerminated

C9_Witness ==
    /\ pc = "done"
    /\ Len(log) = Len(MainPlan)
    /\ log[1].ret = "True"
    /\ log[2].ret = "True"

\* C10: whenever qa_chain is present its retriever is bound to the current
\* vector_store, and a query that ran the chain searched the current
\* vector_store.
C10_RetrieverIsCurrent ==
    /\ qa_chain # None => qa_chain.retriever = vector_store
    /\ ranChain => searched = vector_store

====
